---- MODULE Spec2Model ----
(***************************************************************************)
(* rDock: the interaction state machine of DockApp (src/src/main.rs) with  *)
(* the hit test of the Renderer (src/src/renderer.rs) and the context menu *)
(* (src/src/context_menu.rs).                                              *)
(*                                                                         *)
(* Representation.                                                         *)
(*  - Option<usize> and Option<Instant> are integers, None being -1.       *)
(*  - An armed timer Some(t) is held as t.elapsed() in milliseconds, which *)
(*    is the only way the code reads it; Advance lets time pass. Elapsed   *)
(*    times saturate at the largest delay they are compared with.          *)
(*  - The f32 dock positions are fixed-point numbers, YUnit steps to the   *)
(*    pixel; icon scales are fixed-point with ScaleUnit steps to 1.0.      *)
(*  - Pointer coordinates are whole pixels; where the code divides a       *)
(*    pixel count by 2.0 the comparison is made on doubled values.         *)
(*  - mouse is the environment: where the pointer really is. ev records    *)
(*    the last handler that ran and the intents it emitted (launch,        *)
(*    save_config), which the program hands to its collaborators.          *)
(***************************************************************************)
EXTENDS Integers, Sequences, FiniteSets, TLC

VARIABLES
    items,                 \* config.items
    locked,                \* config.dock.locked
    dock,                  \* the other settings of config.dock
    renderer_width,        \* renderer.width, set by Renderer::new
    hovered_item,
    cursor_in_window,
    cursor_x,
    cursor_y,
    dock_y_current,
    dock_y_target,
    dock_y_visible,
    dock_y_hidden,
    hide_timer,
    show_timer,
    icon_scales,
    dragging,
    drag_start_idx,
    drag_start_x,
    needs_reload,
    last_mouse_poll,
    fullscreen_active,
    last_fullscreen_check,
    panicked,              \* the process has aborted in an unwrap or an index
    mouse,                 \* environment: "dock", "edge" or "away"
    readable,              \* environment: the icon files that open and decode
    icons,                 \* renderer.icons: the paths that have a cache entry
    blend,                 \* the operands and the result of a call of alpha_blend
    ev                     \* last handler and the intents it emitted

vars == <<items, locked, dock, renderer_width, hovered_item, cursor_in_window,
          cursor_x, cursor_y, dock_y_current, dock_y_target, dock_y_visible,
          dock_y_hidden, hide_timer, show_timer, icon_scales, dragging,
          drag_start_idx, drag_start_x, needs_reload, last_mouse_poll,
          fullscreen_active, last_fullscreen_check, panicked, mouse, readable,
          icons, blend, ev>>

None == -1

----------------------------------------------------------------------------
(* Bounds of the model *)

\* longest item list (Init, loads and pushes)
MaxItems == 3

----------------------------------------------------------------------------
(* Program constants, in milliseconds and pixels *)

HIDE_DELAY == 500
MOUSE_POLL_INTERVAL == 50
FULLSCREEN_CHECK_INTERVAL == 500
DRAG_THRESHOLD == 5
OFF_SCREEN == -1000

\* steps of the fixed-point representations of f32
YUnit == 20
ScaleUnit == 10000

\* the settings the model runs the dock with
icon_size == 4
spacing_x == 2
padding == [top |-> 1, right |-> 0, bottom |-> 1, left |-> 0]
negative_vertical_offset == 0
screen_height == 20

\* the passage of time between two handlers that Advance can add
TimeSteps == {400}

----------------------------------------------------------------------------
(* Arithmetic *)

Abs(a) == IF a < 0 THEN -a ELSE a

Min(a, b) == IF a < b THEN a ELSE b

\* a / b rounded toward zero, as an f32 product cast back to the grid
Trunc(a, b) == IF a >= 0 THEN a \div b ELSE -((-a) \div b)

\* an elapsed time after dt more milliseconds, saturating at cap
Later(t, dt, cap) == IF t = None THEN None ELSE Min(t + dt, cap)

----------------------------------------------------------------------------
(* Items *)

AppA == [name |-> "A", separator |-> FALSE]
AppB == [name |-> "B", separator |-> FALSE]

new_separator == [name |-> "---", separator |-> TRUE]

is_separator(item) == item.separator \/ item.name = "---"

ItemPool == {AppA, AppB, new_separator}

\* Vec::remove and Vec::insert with 0-based indices
VecRemove(v, i) == [k \in 1..(Len(v) - 1) |-> IF k <= i THEN v[k] ELSE v[k + 1]]

VecInsert(v, i, x) ==
    [k \in 1..(Len(v) + 1) |-> IF k <= i THEN v[k] ELSE IF k = i + 1 THEN x ELSE v[k - 1]]

VecSet(v, i, x) == [v EXCEPT ![i + 1] = x]

----------------------------------------------------------------------------
(* Renderer: dimensions and hit test *)

\* Renderer::new: mag_extra_width = (icon_size * 0.4) as u32
mag_extra_width == (icon_size * 4) \div 10

\* Renderer::new: reflection_h = (icon_size * 0.2) as u32
reflection_h == (icon_size * 2) \div 10

RendererWidth(n) ==
    IF n > 0
    THEN n * icon_size + (n - 1) * spacing_x + padding.left + padding.right + mag_extra_width
    ELSE padding.left + padding.right

RendererHeight == icon_size + padding.top + padding.bottom + reflection_h + 4

item_width(item) == IF is_separator(item) THEN icon_size \div 3 ELSE icon_size

RECURSIVE SumWidths(_, _)
\* the widths of the first k items
SumWidths(its, k) == IF k = 0 THEN 0 ELSE SumWidths(its, k - 1) + item_width(its[k])

total_width(its) ==
    IF Len(its) = 0 THEN 0 ELSE SumWidths(its, Len(its)) + (Len(its) - 1) * spacing_x

\* twice the left edge of slot i in a row of equal slots that starts at the
\* left padding
HitXPos2LeftAligned(its, width, i) == 2 * (padding.left + i * (icon_size + spacing_x))

\* twice x_pos of the item with 0-based index i in the walk of hit_test
HitXPos2(its, width, i) == (width - total_width(its)) + 2 * (SumWidths(its, i) + i * spacing_x)

HitAt(its, width, x, i) ==
    /\ 2 * x >= HitXPos2(its, width, i) - spacing_x
    /\ 2 * x < HitXPos2(its, width, i) + 2 * item_width(its[i + 1]) + spacing_x

hit_test(x, y, its, width) ==
    LET extra  == (icon_size * 3) \div 10
        top    == padding.top - extra
        bottom == padding.top + icon_size + extra
        hits   == {i \in 0..(Len(its) - 1) : HitAt(its, width, x, i)}
    IN  IF y < top \/ y >= bottom THEN None
        ELSE IF hits = {} THEN None
        ELSE CHOOSE i \in hits : \A j \in hits : i <= j

\* render: scales.get(i).copied().unwrap_or(1.0), i 0-based
ScaleAt(scales, i) == IF i + 1 <= Len(scales) THEN scales[i + 1] ELSE ScaleUnit

RECURSIVE RenderTotal(_, _, _, _)
\* render, first pass: ScaleUnit times what the items before index k add to
\* total_width; the dragged item (skip, or None) is left out
RenderTotal(its, scales, skip, k) ==
    IF k = 0 THEN 0
    ELSE RenderTotal(its, scales, skip, k - 1)
         + (IF k - 1 = skip THEN 0
            ELSE (IF is_separator(its[k])
                  THEN (icon_size \div 3) * ScaleUnit
                  ELSE icon_size * ScaleAt(scales, k - 1))
                 + (IF k - 1 < Len(its) - 1 THEN spacing_x * ScaleUnit ELSE 0))

\* render: ScaleUnit times total_width, the width the row is centred with
render_total_width(its, scales, skip) ==
    RenderTotal(its, scales, skip, Len(its))
    + (IF skip # None THEN spacing_x * ScaleUnit ELSE 0)

\* render: scaled_size = (icon_size as f32 * scale) as u32
scaled_size(scale) == (icon_size * scale) \div ScaleUnit

\* render, the walk: the width x_pos advances by for an item, spacing aside
walk_width(its, scales, i) ==
    IF is_separator(its[i + 1]) THEN icon_size \div 3 ELSE scaled_size(ScaleAt(scales, i))

RECURSIVE SumSlots(_, _, _)
\* the slot widths of the first k items in the walk
SumSlots(its, scales, k) ==
    IF k = 0 THEN 0 ELSE SumSlots(its, scales, k - 1) + walk_width(its, scales, k - 1)

\* render, the walk with no drag: 2 * ScaleUnit times x_pos at the item with
\* 0-based index i
RenderXPos2(its, scales, width, i) ==
    (width * ScaleUnit - render_total_width(its, scales, None))
    + 2 * ScaleUnit * (SumSlots(its, scales, i) + i * spacing_x)

\* the pixel (as i32) under the horizontal midpoint of the slot of item i
SlotMidPixel(its, scales, width, i) ==
    (RenderXPos2(its, scales, width, i) + ScaleUnit * walk_width(its, scales, i))
        \div (2 * ScaleUnit)

\* render, the walk during a drag: rendered_count when the walk arrives at the
\* item with 0-based index i (i = n after the last item)
rendered_count(drag_from, i) == IF drag_from < i THEN i - 1 ELSE i

\* render: the values of rendered_count at which the walk draws the drop
\* indicator in front of an item; that many items are drawn to its left
GapsInWalk(n, drag_from, drag_to) ==
    {rendered_count(drag_from, i) :
        i \in {h \in 0..(n - 1) : /\ h # drag_from
                                  /\ rendered_count(drag_from, h) = drag_to
                                  /\ drag_to # drag_from}}

\* render: the drop indicator drawn after the walk, at the end of the row
GapAtEnd(n, drag_from, drag_to) ==
    IF drag_to >= rendered_count(drag_from, n) THEN {rendered_count(drag_from, n)} ELSE {}

\* render: the positions of the drop indicators of a frame drawn during a drag,
\* each as the number of items drawn to its left
DropIndicators(n, drag_from, drag_to) ==
    GapsInWalk(n, drag_from, drag_to) \cup GapAtEnd(n, drag_from, drag_to)

\* DockItem.icon, an Option: the set of the path, or the empty set
icon(item) == IF is_separator(item) THEN {} ELSE {item.name}

\* the icon paths of the applications of the model
IconPaths == icon(AppA) \cup icon(AppB)

\* a preload in which the first icon that fails leaves the cache empty
load_icons_or_fail(its, files) ==
    IF \A k \in 1..Len(its) : icon(its[k]) \subseteq files
    THEN UNION {icon(its[k]) : k \in 1..Len(its)}
    ELSE {}

\* Renderer::new, the preload: the keys of renderer.icons; files are the paths
\* for which load_icon returns Ok
load_icons(its, files) ==
    {p \in UNION {icon(its[k]) : k \in 1..Len(its)} : p \in files}

\* render: what is drawn for the item with 0-based index i
draw_kind(its, cache, i) ==
    IF is_separator(its[i + 1]) THEN "separator"
    ELSE IF icon(its[i + 1]) # {} /\ ~(icon(its[i + 1]) \subseteq cache) THEN "placeholder"
    ELSE IF icon(its[i + 1]) # {} THEN "icon"
    ELSE "placeholder"

\* render: what x_pos advances by at the item with 0-based index i
walk_advance(its, scales, cache, i) ==
    IF is_separator(its[i + 1]) THEN icon_size \div 3 + spacing_x
    ELSE IF icon(its[i + 1]) # {} /\ ~(icon(its[i + 1]) \subseteq cache)
         THEN scaled_size(ScaleAt(scales, i)) + spacing_x
    ELSE scaled_size(ScaleAt(scales, i)) + spacing_x

RECURSIVE BitOr(_, _)
\* x | y
BitOr(x, y) ==
    IF x = 0 THEN y
    ELSE IF y = 0 THEN x
    ELSE 2 * BitOr(x \div 2, y \div 2) + (IF x % 2 = 1 \/ y % 2 = 1 THEN 1 ELSE 0)

\* A u32 pixel is the tuple of its four bytes, the highest first.
\* (pixel >> shift) & 0xFF for shift 24, 16, 8 and 0
Channel(pixel, shift) == pixel[4 - shift \div 8]

\* byte k (0 the lowest) of v << shift in 32 bits
ShiftedByte(v, shift, k) ==
    IF 8 * k < shift THEN 0 ELSE (v \div (2 ^ (8 * k - shift))) % 256

\* (a << 24) | (r << 16) | (g << 8) | b in 32 bits
Pack(a, r, g, b) ==
    [j \in 1..4 |->
        BitOr(BitOr(ShiftedByte(a, 24, 4 - j), ShiftedByte(r, 16, 4 - j)),
              BitOr(ShiftedByte(g, 8, 4 - j), ShiftedByte(b, 0, 4 - j)))]

\* the constant 0 as a pixel
Zero == <<0, 0, 0, 0>>

\* alpha_blend past the early returns: out_a, out_r, out_g and out_b as the
\* u32 values they are before they are packed
blend_channels(dst, src) ==
    LET sa == Channel(src, 24)
        da == Channel(dst, 24)
        out_a == sa + (da * (255 - sa)) \div 255
        out(shift) == (Channel(src, shift) * sa
                       + (Channel(dst, shift) * da * (255 - sa)) \div 255) \div out_a
    IN  [a |-> out_a, r |-> out(16), g |-> out(8), b |-> out(0)]

alpha_blend(dst, src) ==
    LET sa == Channel(src, 24)
        c  == blend_channels(dst, src)
    IN  IF sa = 0 THEN dst
        ELSE IF sa = 255 THEN src
        ELSE IF sa + (Channel(dst, 24) * (255 - sa)) \div 255 = 0 THEN Zero
        ELSE Pack(c.a, c.r, c.g, c.b)

\* no call of alpha_blend is under study
NoBlend == [dst |-> Zero, src |-> Zero, out |-> Zero, done |-> FALSE]

----------------------------------------------------------------------------
(* DockApp: pure parts of the handlers *)

get_drop_index(cx, its) ==
    LET num_items   == Len(its)
        rel_x       == cx - padding.left
        slot_width  == icon_size + spacing_x
        slot        == rel_x \div slot_width
        within_slot == rel_x - slot * slot_width
    IN  IF num_items = 0 THEN 0
        ELSE IF rel_x <= 0 THEN 0
        ELSE IF 2 * within_slot > icon_size THEN Min(slot + 1, num_items)
        ELSE Min(slot, num_items)

\* DropMoves without the test of the slot to the right of the source
DropMovesUnlessSame(from_idx, to_idx) == to_idx # from_idx

\* MouseInput Released Left, dragging: is the drop a move at all
DropMoves(from_idx, to_idx) == to_idx # from_idx /\ to_idx # from_idx + 1

\* MouseInput Released Left, dragging: where the removed item goes back in
InsertIdx(from_idx, to_idx) == IF to_idx > from_idx THEN to_idx - 1 ELSE to_idx

\* MouseInput Released Left, dragging: the list after remove and insert
Reorder(its, from_idx, to_idx) ==
    VecInsert(VecRemove(its, from_idx), InsertIdx(from_idx, to_idx), its[from_idx + 1])

\* PastThreshold with the comparison off by one
PastThresholdInclusive(cx, start_x) == Abs(cx - start_x) >= DRAG_THRESHOLD

\* CursorMoved: has the pointer moved far enough from the press to drag
PastThreshold(cx, start_x) == Abs(cx - start_x) > DRAG_THRESHOLD

\* a press that is recorded on a locked dock as well
MayStartDragLocked(is_locked, hovered) == hovered # None

\* MouseInput Pressed Left: may the press start a pending drag
MayStartDrag(is_locked, hovered) == ~is_locked /\ hovered # None

\* MayPromote without the test for a recorded press
MayPromoteUnpressed(is_dragging, start_idx, is_locked) == ~is_dragging /\ ~is_locked

\* CursorMoved: may a pending press be promoted to a drag
MayPromote(is_dragging, start_idx, is_locked) ==
    ~is_dragging /\ start_idx # None /\ ~is_locked

\* ClickLaunches without the separator test
ClickLaunchesAny(its, index) == index # None

\* MouseInput Released Left, not dragging: is the click a launch
ClickLaunches(its, index) ==
    index # None /\ ~(IF index < Len(its) THEN is_separator(its[index + 1]) ELSE FALSE)

\* check_hide: has the armed hide timer run out
HideElapsed(t) == t # None /\ t >= HIDE_DELAY

\* ShowElapsed that waits for more than the delay
ShowElapsedLate(t, show_delay) == t # None /\ t > show_delay

\* check_show: has the armed show timer run out
ShowElapsed(t, show_delay) == t # None /\ t >= show_delay

\* EntersFullscreen that takes the change the other way round
LeavesFullscreen(was_fullscreen, is_fullscreen) == ~is_fullscreen /\ was_fullscreen

\* check_fullscreen: has a fullscreen app come up since the last check
EntersFullscreen(was_fullscreen, is_fullscreen) == is_fullscreen /\ ~was_fullscreen

\* CursorLeft: is the dock (nearly) at its visible position
NearVisible(cur, vis) == Abs(cur - vis) < 5 * YUnit

\* a start_hide that does not look at auto_hide
start_hide_always(auto_hide, t) == IF t = None THEN 0 ELSE t

\* start_hide: the hide timer after the call
start_hide(auto_hide, t) == IF auto_hide /\ t = None THEN 0 ELSE t

\* update_animations: one smoothing step of the dock position
\* a position step that is taken whatever the residual
StepYAlways(cur, target) == cur + Trunc((target - cur) * 15, 100)

StepY(cur, target) ==
    LET dy == target - cur
    IN  IF 2 * Abs(dy) > YUnit THEN cur + Trunc(dy * 15, 100) ELSE cur

\* update_animations: (1 + cos(t * PI)) / 2 for t = dist / range, in ScaleUnit
\* steps. The cosine is taken by the cubic 1 - 3t^2 + 2t^3, which agrees with
\* it at t = 0, 1/2 and 1 and is decreasing in between.
Falloff(dist, range) ==
    (ScaleUnit * (range * range * range - 3 * dist * dist * range + 2 * dist * dist * dist))
        \div (range * range * range)

\* update_animations: the target scale of icon i (0-based)
TargetScale(i, in_window, cx, is_dragging, max_scale) ==
    LET center2 == 2 * padding.left + 2 * i * (icon_size + spacing_x) + icon_size
        range2  == 7 * icon_size
        dist2   == Abs(2 * cx - center2)
    IN  IF in_window /\ cx >= 0 /\ ~is_dragging
        THEN IF dist2 < range2
             THEN ScaleUnit + Trunc((max_scale - ScaleUnit) * Falloff(dist2, range2), ScaleUnit)
             ELSE ScaleUnit
        ELSE ScaleUnit

\* a smoothing step of 130% of the distance to the target
StepScaleOvershoot(scale, target) == scale + Trunc((target - scale) * 13, 10)

\* a smoothing step that never snaps to the target
StepScaleNoSnap(scale, target) == scale + Trunc((target - scale) * 3, 10)

\* update_animations: one smoothing step of an icon scale
StepScale(scale, target) ==
    LET d == target - scale
    IN  IF 1000 * Abs(d) > ScaleUnit THEN scale + Trunc(d * 3, 10) ELSE target

Ones(n) == [k \in 1..n |-> ScaleUnit]

\* is_animating: does the event loop ask for another frame
is_animating ==
    LET dock_animating  == 2 * Abs(dock_y_target - dock_y_current) > YUnit
        icons_animating == \E k \in 1..Len(icon_scales) :
                              100 * Abs(icon_scales[k] - ScaleUnit) > ScaleUnit
        hide_pending    == hide_timer # None
    IN  dock_animating \/ icons_animating \/ hide_pending \/ cursor_in_window

\* resumed / reload_config: y_vis and the hidden positions
YVisible == (screen_height - RendererHeight + negative_vertical_offset) * YUnit

YHiddenAtStart == (screen_height - 5) * YUnit

YHiddenAfterReload == (screen_height + 20) * YUnit

----------------------------------------------------------------------------
(* What a handler leaves behind in ev *)

Event(op) == [op |-> op, launch |-> None, saved |-> FALSE, from |-> None, to |-> None]

\* show_dock_target of a show_dock that leaves the target where it is
KeepTarget == dock_y_target

\* show_dock: dock_y_target, hide_timer and show_timer after the call
show_dock_target == dock_y_visible

----------------------------------------------------------------------------
(* Window events *)

\* CancelDrag that forgets the recorded press
CancelDragKeepsPress ==
    /\ dragging' = FALSE
    /\ UNCHANGED drag_start_idx

\* CursorLeft, MouseInput Pressed Right: "Cancel any drag"
CancelDrag ==
    /\ dragging' = FALSE
    /\ drag_start_idx' = None

\* WindowEvent::CursorMoved at window position (x, y)
CursorMoved(x, y) ==
    LET promote == MayPromote(dragging, drag_start_idx, locked)
                   /\ PastThreshold(x, drag_start_x)
        drag    == dragging \/ promote
    IN  /\ ~panicked
        /\ x < renderer_width
        /\ mouse' = "dock"
        /\ cursor_in_window' = TRUE
        /\ cursor_x' = x
        /\ cursor_y' = y
        /\ dock_y_target' = show_dock_target
        /\ hide_timer' = None
        /\ show_timer' = None
        /\ dragging' = drag
        /\ hovered_item' = IF ~drag THEN hit_test(x, y, items, renderer_width)
                           ELSE hovered_item
        /\ ev' = Event("CursorMoved")
        /\ UNCHANGED <<readable, icons, blend>>
        /\ UNCHANGED <<items, locked, dock, renderer_width, dock_y_current,
                       dock_y_visible, dock_y_hidden, icon_scales, drag_start_idx,
                       drag_start_x, needs_reload, last_mouse_poll,
                       fullscreen_active, last_fullscreen_check, panicked>>

\* WindowEvent::CursorLeft, the pointer going to dest
CursorLeft(dest) ==
    /\ ~panicked
    /\ mouse = "dock"
    /\ mouse' = dest
    /\ cursor_in_window' = FALSE
    /\ cursor_x' = OFF_SCREEN
    /\ cursor_y' = OFF_SCREEN
    /\ hovered_item' = None
    /\ CancelDrag
    /\ hide_timer' = IF NearVisible(dock_y_current, dock_y_visible)
                     THEN start_hide(dock.auto_hide, hide_timer)
                     ELSE hide_timer
    /\ ev' = [Event("CursorLeft") EXCEPT
                !.from = IF dragging THEN drag_start_idx ELSE None]
    /\ UNCHANGED <<readable, icons, blend>>
    /\ UNCHANGED <<items, locked, dock, renderer_width, dock_y_current,
                   dock_y_target, dock_y_visible, dock_y_hidden, show_timer,
                   icon_scales, drag_start_x, needs_reload, last_mouse_poll,
                   fullscreen_active, last_fullscreen_check, panicked>>

\* WindowEvent::MouseInput Pressed Left
LeftPressed ==
    /\ ~panicked
    /\ mouse = "dock"
    /\ IF MayStartDrag(locked, hovered_item)
       THEN /\ drag_start_idx' = hovered_item
            /\ drag_start_x' = cursor_x
       ELSE UNCHANGED <<drag_start_idx, drag_start_x>>
    /\ ev' = Event("LeftPressed")
    /\ UNCHANGED <<readable, icons, blend>>
    /\ UNCHANGED <<items, locked, dock, renderer_width, hovered_item,
                   cursor_in_window, cursor_x, cursor_y, dock_y_current,
                   dock_y_target, dock_y_visible, dock_y_hidden, hide_timer,
                   show_timer, icon_scales, dragging, needs_reload,
                   last_mouse_poll, fullscreen_active, last_fullscreen_check,
                   panicked, mouse>>

\* WindowEvent::MouseInput Released Left
LeftReleased ==
    LET from_idx == drag_start_idx
        to_idx   == get_drop_index(cursor_x, items)
        moves    == dragging /\ from_idx # None /\ DropMoves(from_idx, to_idx)
        click    == ~dragging /\ drag_start_idx # None
    IN  /\ ~panicked
        /\ IF moves /\ from_idx >= Len(items)
           THEN \* Vec::remove panics
                /\ panicked' = TRUE
                /\ ev' = Event("panic")
                /\ UNCHANGED <<items, needs_reload, dragging, drag_start_idx>>
           ELSE /\ panicked' = FALSE
                /\ items' = IF moves THEN Reorder(items, from_idx, to_idx) ELSE items
                /\ needs_reload' = (needs_reload \/ moves)
                /\ dragging' = FALSE
                /\ drag_start_idx' = IF dragging \/ click THEN None ELSE drag_start_idx
                /\ ev' = [op     |-> "LeftReleased",
                          launch |-> IF click /\ ClickLaunches(items, hovered_item)
                                     THEN hovered_item ELSE None,
                          saved  |-> moves,
                          from   |-> IF dragging THEN from_idx ELSE None,
                          to     |-> IF dragging /\ from_idx # None THEN to_idx ELSE None]
        /\ UNCHANGED <<readable, icons, blend>>
        /\ UNCHANGED <<locked, dock, renderer_width, hovered_item, cursor_in_window,
                       cursor_x, cursor_y, dock_y_current, dock_y_target,
                       dock_y_visible, dock_y_hidden, hide_timer, show_timer,
                       icon_scales, drag_start_x, last_mouse_poll,
                       fullscreen_active, last_fullscreen_check, mouse>>

----------------------------------------------------------------------------
(* The context menu *)

\* show_context_menu: the entries appended to the menu, by the action they return
\* a menu that offers every entry whatever was clicked
OfferedAlways(act, clicked_item, is_locked, is_sep) == TRUE

Offered(act, clicked_item, is_locked, is_sep) ==
    CASE act = "EditItem"     -> clicked_item # None /\ ~is_locked /\ ~is_sep
      [] act = "RemoveItem"   -> clicked_item # None /\ ~is_locked
      [] act = "AddItem"      -> ~is_locked
      [] act = "AddSeparator" -> ~is_locked
      [] act = "AddSpecial"   -> ~is_locked
      [] OTHER                -> TRUE

\* show_context_menu: the index an item action carries
ActionIndex(clicked_item) == IF clicked_item = None THEN 0 ELSE clicked_item

\* WindowEvent::MouseInput Pressed Right, the pointer being where the last
\* CursorMoved saw it. c is what the user does next: c.act the menu entry picked,
\* c.dlg and c.item what the item editor returns when it is opened, c.load what
\* the file picked for LoadConfig parses to.
RightPressed(c) ==
    LET act     == c.act
        dlg     == c.dlg
        item    == c.item
        load    == c.load
        clicked == hit_test(cursor_x, cursor_y, items, renderer_width)
        is_sep  == IF clicked # None /\ clicked < Len(items)
                   THEN is_separator(items[clicked + 1]) ELSE FALSE
        idx     == ActionIndex(clicked)
        push    == \/ act \in {"AddItem", "AddSpecial"} /\ dlg = "Ok"
                   \/ act = "AddSeparator"
        pushed  == IF act = "AddSeparator" THEN new_separator ELSE item
        remove  == /\ idx < Len(items)
                   /\ \/ act = "RemoveItem"
                      \/ act = "EditItem" /\ dlg = "Remove"
        edit    == act = "EditItem" /\ idx < Len(items) /\ dlg = "Ok"
        loaded  == act = "LoadConfig" /\ load.ok
    IN  /\ ~panicked
        /\ mouse = "dock"
        /\ Offered(act, clicked, locked, is_sep)
        /\ push => Len(items) < MaxItems
        /\ CancelDrag
        /\ items' = CASE push   -> Append(items, pushed)
                      [] remove -> VecRemove(items, idx)
                      [] edit   -> VecSet(items, idx, item)
                      [] loaded -> load.items
                      [] OTHER  -> items
        /\ locked' = CASE act = "ToggleLock" -> ~locked
                       [] loaded             -> load.locked
                       [] OTHER              -> locked
        /\ needs_reload' = (needs_reload \/ push \/ remove \/ edit \/ loaded)
        /\ ev' = [Event("RightPressed") EXCEPT
                    !.saved = push \/ remove \/ edit \/ act = "ToggleLock"]
        /\ UNCHANGED <<readable, icons, blend>>
        /\ UNCHANGED <<dock, renderer_width, hovered_item, cursor_in_window,
                       cursor_x, cursor_y, dock_y_current, dock_y_target,
                       dock_y_visible, dock_y_hidden, hide_timer, show_timer,
                       icon_scales, drag_start_x, last_mouse_poll,
                       fullscreen_active, last_fullscreen_check, panicked, mouse>>

----------------------------------------------------------------------------
(* The redraw tick *)

\* WindowEvent::RedrawRequested. modified: check_config_reload has seen the file
\* change; load: what Config::load returns if reload_config calls it.
Redraw(modified, load) ==
    LET reload   == (needs_reload \/ modified) /\ load.ok
        n        == Len(load.items)
        \* reload_config
        ht1      == IF reload THEN None ELSE hide_timer
        vis1     == IF reload THEN YVisible ELSE dock_y_visible
        hid1     == IF reload THEN YHiddenAfterReload ELSE dock_y_hidden
        cur1     == IF reload THEN YVisible ELSE dock_y_current
        tgt1     == IF reload THEN vis1 ELSE dock_y_target
        scales1  == IF reload THEN Ones(n) ELSE icon_scales
        \* check_hide
        hide     == dock.auto_hide /\ HideElapsed(ht1)
        tgt2     == IF hide THEN hid1 ELSE tgt1
        ht2      == IF hide THEN None ELSE ht1
        \* check_show, show_dock
        show     == dock.auto_hide /\ ShowElapsed(show_timer, dock.auto_show_delay_ms)
        tgt3     == IF show THEN vis1 ELSE tgt2
        ht3      == IF show THEN None ELSE ht2
        st3      == IF show THEN None ELSE show_timer
    IN  /\ ~panicked
        /\ IF reload /\ RendererWidth(n) = 0
           THEN \* NonZeroU32::new(renderer.width).unwrap() panics
                /\ panicked' = TRUE
                /\ ev' = Event("panic")
                /\ UNCHANGED icons
                /\ UNCHANGED <<items, locked, renderer_width, dock_y_current,
                               dock_y_target, dock_y_visible, dock_y_hidden,
                               hide_timer, show_timer, icon_scales, needs_reload>>
           ELSE /\ panicked' = FALSE
                /\ needs_reload' = FALSE
                /\ items' = IF reload THEN load.items ELSE items
                /\ locked' = IF reload THEN load.locked ELSE locked
                /\ renderer_width' = IF reload THEN RendererWidth(n) ELSE renderer_width
                /\ icons' = IF reload THEN load_icons(load.items, readable) ELSE icons
                /\ dock_y_visible' = vis1
                /\ dock_y_hidden' = hid1
                /\ dock_y_target' = tgt3
                /\ hide_timer' = ht3
                /\ show_timer' = st3
                \* update_animations
                /\ dock_y_current' = StepY(cur1, tgt3)
                /\ icon_scales' =
                     [k \in 1..Len(scales1) |->
                        StepScale(scales1[k],
                                  TargetScale(k - 1, cursor_in_window, cursor_x,
                                              dragging, dock.magnification))]
                /\ ev' = Event("Redraw")
        /\ UNCHANGED <<readable, blend>>
        /\ UNCHANGED <<dock, hovered_item, cursor_in_window, cursor_x, cursor_y,
                       dragging, drag_start_idx, drag_start_x, last_mouse_poll,
                       fullscreen_active, last_fullscreen_check, mouse>>

----------------------------------------------------------------------------
(* The event loop going idle *)

\* about_to_wait. tray_click: the tray icon was clicked (show_dock_at_cursor);
\* edge: GetCursorPos is within the trigger distance of the screen bottom, which
\* for a pointer over the dock depends on where the window is; fs: what
\* is_fullscreen_app_active returns if check_fullscreen calls it.
AboutToWait(tray_click, edge, fs) ==
    LET \* show_dock_at_cursor
        cur1    == IF tray_click THEN dock_y_visible ELSE dock_y_current
        tgt1    == IF tray_click THEN dock_y_visible ELSE dock_y_target
        ht1     == IF tray_click THEN None ELSE hide_timer
        st1     == IF tray_click THEN None ELSE show_timer
        \* check_mouse_position
        poll    == /\ dock.auto_hide
                   /\ ~fullscreen_active
                   /\ last_mouse_poll >= MOUSE_POLL_INTERVAL
        at_bottom_edge == edge
        in_dock == mouse = "dock"
        show    == poll /\ at_bottom_edge /\ dock.auto_show_delay_ms = 0
        arm     == /\ poll /\ at_bottom_edge /\ dock.auto_show_delay_ms # 0
                   /\ st1 = None /\ tgt1 # dock_y_visible
        tgt2    == IF show THEN dock_y_visible ELSE tgt1
        ht2     == IF show THEN None ELSE ht1
        st2     == CASE show                    -> None
                     [] arm                     -> 0
                     [] poll /\ ~at_bottom_edge -> None
                     [] OTHER                   -> st1
        ciw2    == IF poll /\ at_bottom_edge THEN in_dock ELSE cursor_in_window
        ht3     == IF /\ poll /\ ~at_bottom_edge /\ ~in_dock
                      /\ tgt2 = dock_y_visible /\ ~ciw2
                   THEN start_hide(dock.auto_hide, ht2) ELSE ht2
        left    == poll /\ ~in_dock /\ ciw2
        ciw3    == IF left THEN FALSE ELSE ciw2
        ht4     == IF left THEN start_hide(dock.auto_hide, ht3) ELSE ht3
        \* check_fullscreen
        check   == /\ dock.hide_in_fullscreen
                   /\ last_fullscreen_check >= FULLSCREEN_CHECK_INTERVAL
        entered == check /\ EntersFullscreen(fullscreen_active, fs)
    IN  /\ ~panicked
        /\ mouse = "edge" => edge
        /\ mouse = "away" => ~edge
        /\ dock_y_current' = cur1
        /\ dock_y_target' = IF entered THEN dock_y_hidden ELSE tgt2
        /\ hide_timer' = IF entered THEN None ELSE ht4
        /\ show_timer' = st2
        /\ cursor_in_window' = ciw3
        /\ last_mouse_poll' = IF poll THEN 0 ELSE last_mouse_poll
        /\ last_fullscreen_check' = IF check THEN 0 ELSE last_fullscreen_check
        /\ fullscreen_active' = IF check THEN fs ELSE fullscreen_active
        /\ ev' = Event("AboutToWait")
        /\ UNCHANGED <<readable, icons, blend>>
        /\ UNCHANGED <<items, locked, dock, renderer_width, hovered_item, cursor_x,
                       cursor_y, dock_y_visible, dock_y_hidden, icon_scales,
                       dragging, drag_start_idx, drag_start_x, needs_reload,
                       panicked, mouse>>

----------------------------------------------------------------------------
(* The environment *)

\* dt milliseconds pass
Advance(dt) ==
    /\ ~panicked
    /\ hide_timer' = Later(hide_timer, dt, HIDE_DELAY)
    /\ show_timer' = Later(show_timer, dt, dock.auto_show_delay_ms)
    /\ last_mouse_poll' = Later(last_mouse_poll, dt, MOUSE_POLL_INTERVAL)
    /\ last_fullscreen_check' = Later(last_fullscreen_check, dt, FULLSCREEN_CHECK_INTERVAL)
    /\ ev' = Event("Advance")
    /\ UNCHANGED <<readable, icons, blend>>
    /\ UNCHANGED <<items, locked, dock, renderer_width, hovered_item,
                   cursor_in_window, cursor_x, cursor_y, dock_y_current,
                   dock_y_target, dock_y_visible, dock_y_hidden, icon_scales,
                   dragging, drag_start_idx, drag_start_x, needs_reload,
                   fullscreen_active, panicked, mouse>>

\* the pointer moves outside the dock window, to or from the screen's bottom edge
MouseOutside(dest) ==
    /\ ~panicked
    /\ mouse \in {"edge", "away"}
    /\ dest \in {"edge", "away"}
    /\ mouse' = dest
    /\ ev' = Event("MouseOutside")
    /\ UNCHANGED <<readable, icons, blend>>
    /\ UNCHANGED <<items, locked, dock, renderer_width, hovered_item,
                   cursor_in_window, cursor_x, cursor_y, dock_y_current,
                   dock_y_target, dock_y_visible, dock_y_hidden, hide_timer,
                   show_timer, icon_scales, dragging, drag_start_idx, drag_start_x,
                   needs_reload, last_mouse_poll, fullscreen_active,
                   last_fullscreen_check, panicked>>

----------------------------------------------------------------------------
(* Specifications *)

Settings(auto_hide, show_delay, hide_delay, hide_fs, mag) ==
    [auto_hide |-> auto_hide, auto_show_delay_ms |-> show_delay,
     auto_hide_delay_ms |-> hide_delay, hide_in_fullscreen |-> hide_fs,
     magnification |-> mag]

RECURSIVE Settle(_, _)
\* where the smoothing steps of the dock position come to rest
Settle(cur, target) == IF StepY(cur, target) = cur THEN cur ELSE Settle(StepY(cur, target), target)

\* DockApp::new followed by resumed, for a config with the given settings and items;
\* resumed leaves the dock 10 pixels under its visible position, and the first
\* frames slide it up: slid tells whether they have been drawn
InitAll(settings, lists, slid, files, blends) ==
    /\ items \in lists
    /\ RendererWidth(Len(items)) > 0     \* or resumed panics and nothing runs
    /\ locked \in BOOLEAN
    /\ dock \in settings
    /\ renderer_width = RendererWidth(Len(items))
    /\ hovered_item = None
    /\ cursor_in_window = FALSE
    /\ cursor_x = OFF_SCREEN
    /\ cursor_y = OFF_SCREEN
    /\ dock_y_visible = YVisible
    /\ dock_y_hidden = YHiddenAtStart
    /\ dock_y_target = YVisible
    /\ dock_y_current = IF slid THEN Settle(YVisible + 10 * YUnit, YVisible)
                        ELSE YVisible + 10 * YUnit
    /\ hide_timer = None
    /\ show_timer = None
    /\ icon_scales = Ones(Len(items))
    /\ dragging = FALSE
    /\ drag_start_idx = None
    /\ drag_start_x = 0
    /\ needs_reload = FALSE
    /\ last_mouse_poll = 0
    /\ fullscreen_active = FALSE
    /\ last_fullscreen_check = 0
    /\ panicked = FALSE
    /\ mouse = "away"
    /\ readable \in files
    /\ icons = load_icons(items, readable)
    /\ blend \in blends
    /\ ev = Event("resumed")

\* a start with every icon file in order and no call of alpha_blend under study
InitWith(settings, lists, slid) ==
    InitAll(settings, lists, slid, {IconPaths}, {NoBlend})

\* pointer positions: the middle of every slot of the row, and the row's last pixel
SlotXs == {k * (icon_size + spacing_x) + icon_size \div 2 : k \in 0..(MaxItems - 1)}
              \cup {RendererWidth(MaxItems) - 1}

\* pointer positions: every pixel of a row of two items
PixelXs == 0..(RendererWidth(2) - 1)

\* one row inside the icons' hit area and one below it
IconRowY == padding.top + 1

CursorYs == {IconRowY, padding.top + icon_size + 3}

\* what Config::load can return: an error, or the config read from the file
LoadErr == [ok |-> FALSE, items |-> <<>>, locked |-> FALSE]

Loaded(its, is_locked) == [ok |-> TRUE, items |-> its, locked |-> is_locked]

\* The config file when it is read: unreadable, as the program last had it, or
\* edited by the user, who has toggled locked or deleted the last item.
Loads ==
    {LoadErr, Loaded(items, locked), Loaded(items, ~locked)}
        \cup {Loaded(SubSeq(items, 1, Len(items) - 1), locked) : k \in {1} \cap 1..Len(items)}

Choice(act, dlg, item, load) == [act |-> act, dlg |-> dlg, item |-> item, load |-> load]

\* what the user can do with the context menu and the dialogs behind it
MenuChoices ==
    {Choice(act, "Cancel", AppA, LoadErr) :
        act \in {"None", "RemoveItem", "AddSeparator", "ToggleLock", "EditItem",
                 "AddItem", "AddSpecial"}}
        \cup {Choice("EditItem", "Remove", AppA, LoadErr)}
        \cup {Choice(act, "Ok", item, LoadErr) :
                act \in {"EditItem", "AddItem", "AddSpecial"}, item \in ItemPool}
        \cup {Choice("LoadConfig", "Cancel", AppA, load) : load \in Loads}

\* the user who only dismisses the menu, toggles the lock or removes an item
RemovingChoices == {c \in MenuChoices : c.act \in {"None", "ToggleLock", "RemoveItem"}}

----------------------------------------------------------------------------
(* Spec: drag, drop and context menu on a dock that never hides, the pointer *)
(* visiting the middle of the slots. No handler of such a dock reads a timer, *)
(* so the clock is left out; the dock's position is read by no handler but   *)
(* the smoothing itself, and the run starts when the start-up slide is over   *)
(* (SpecHide has the slide).                                                  *)

Init == InitWith({Settings(FALSE, 0, 300, FALSE, ScaleUnit)},
                 {<<AppA, new_separator, AppB>>}, TRUE)

Next ==
    \/ \E x \in SlotXs : CursorMoved(x, IconRowY)
    \/ CursorLeft("away")
    \/ LeftPressed
    \/ LeftReleased
    \/ \E c \in RemovingChoices : RightPressed(c)
    \/ Redraw(FALSE, Loaded(items, locked))
    \/ \E load \in Loads : Redraw(TRUE, load)

Spec == Init /\ [][Next]_vars

----------------------------------------------------------------------------
(* SpecPointer: the drag threshold, the pointer visiting every pixel of a row *)
(* of two items; the user edits nothing in the config file but locked.        *)

InitPointer == InitWith({Settings(FALSE, 0, 300, FALSE, ScaleUnit)},
                        {<<AppA, AppB>>}, TRUE)

NextPointer ==
    \/ \E x \in PixelXs, y \in CursorYs : CursorMoved(x, y)
    \/ CursorLeft("away")
    \/ LeftPressed
    \/ LeftReleased
    \/ \E c \in {Choice(act, "Cancel", AppA, LoadErr) : act \in {"None", "ToggleLock"}} :
          RightPressed(c)
    \/ Redraw(TRUE, Loaded(items, ~locked))

SpecPointer == InitPointer /\ [][NextPointer]_vars

----------------------------------------------------------------------------
(* SpecHide: the hide and show timers of an auto-hiding dock with one item *)
(* whose config stays as it is.                                            *)

InitHide == InitWith({Settings(TRUE, d, 300, FALSE, ScaleUnit) : d \in {0, 200}},
                     {<<AppA>>}, FALSE)

NextHide ==
    \/ \E x \in SlotXs, y \in CursorYs : CursorMoved(x, y)
    \/ \E dest \in {"edge", "away"} : CursorLeft(dest)
    \/ LeftPressed
    \/ LeftReleased
    \/ RightPressed(Choice("None", "Cancel", AppA, LoadErr))
    \/ Redraw(FALSE, LoadErr)
    \/ \E tray_click \in BOOLEAN, edge \in BOOLEAN : AboutToWait(tray_click, edge, FALSE)
    \/ \E dt \in TimeSteps : Advance(dt)
    \/ \E dest \in {"edge", "away"} : MouseOutside(dest)

SpecHide == InitHide /\ [][NextHide]_vars

----------------------------------------------------------------------------
(* SpecFullscreen: the polls of an auto-hiding dock of two items that hides *)
(* while a fullscreen app is active, with presses, drags and drops going on *)
(* and time passing. The polls do not read the dock's position and no frame *)
(* is drawn: timers are armed and age, the dock stands where it is.         *)

InitFullscreen == InitWith({Settings(TRUE, d, 300, TRUE, ScaleUnit) : d \in {0, 200}},
                           {<<AppA, AppB>>}, TRUE)

NextFullscreen ==
    \/ \E x \in SlotXs : CursorMoved(x, IconRowY)
    \/ \E dest \in {"edge", "away"} : CursorLeft(dest)
    \/ LeftPressed
    \/ LeftReleased
    \/ \E tray_click \in BOOLEAN, edge \in BOOLEAN, fs \in BOOLEAN :
          AboutToWait(tray_click, edge, fs)
    \/ \E dt \in TimeSteps : Advance(dt)
    \/ \E dest \in {"edge", "away"} : MouseOutside(dest)

SpecFullscreen == InitFullscreen /\ [][NextFullscreen]_vars

----------------------------------------------------------------------------
(* SpecMagnify: the magnification wave on a dock of two items that never   *)
(* hides and whose config file the program alone writes. The pointer moves *)
(* to the middle of a slot once the wave has come to rest; it leaves, and  *)
(* the button is pressed and released, at any time; frames are drawn.      *)

\* magnification = 1.5
Magnified == (3 * ScaleUnit) \div 2

InitMagnify == InitWith({Settings(FALSE, 0, 300, FALSE, Magnified)},
                        {<<AppA, AppB>>}, TRUE)

\* every icon has the scale update_animations steers it to
WaveAtRest ==
    \A k \in 1..Len(icon_scales) :
        icon_scales[k] = TargetScale(k - 1, cursor_in_window, cursor_x, dragging,
                                     dock.magnification)

NextMagnify ==
    \/ \E x \in SlotXs : WaveAtRest /\ CursorMoved(x, IconRowY)
    \/ CursorLeft("away")
    \/ LeftPressed
    \/ LeftReleased
    \/ Redraw(FALSE, Loaded(items, locked))

SpecMagnify == InitMagnify /\ [][NextMagnify]_vars

----------------------------------------------------------------------------
(* SpecLayout: hit test and drop index for every list of up to MaxItems     *)
(* regular items and separators, the pointer visiting every pixel of the    *)
(* icon row of a dock without magnification. No frame is drawn: a reorder   *)
(* is saved and the reload it asks for is still to come.                    *)

\* every pixel column of the widest surface
RowXs == 0..(RendererWidth(MaxItems) - 1)

\* the item lists of the modelled configs
ItemLists ==
    UNION {[1..n -> {AppA, new_separator}] : n \in 1..MaxItems}

InitLayout == InitWith({Settings(FALSE, 0, 300, FALSE, ScaleUnit)}, ItemLists, TRUE)

NextLayout ==
    \/ \E x \in RowXs : CursorMoved(x, IconRowY)
    \/ CursorLeft("away")
    \/ LeftPressed
    \/ LeftReleased
    \/ Redraw(FALSE, Loaded(items, locked))

SpecLayout == InitLayout /\ [][NextLayout]_vars

----------------------------------------------------------------------------
(* SpecWave: the magnification wave for every such list, the pointer moving *)
(* to any pixel of the icon row once the wave has come to rest, and         *)
(* leaving at any time; frames are drawn, the config stays as it is.        *)

InitWave == InitWith({Settings(FALSE, 0, 300, FALSE, Magnified)}, ItemLists, TRUE)

NextWave ==
    \/ \E x \in RowXs : WaveAtRest /\ CursorMoved(x, IconRowY)
    \/ CursorLeft("away")
    \/ Redraw(FALSE, LoadErr)

SpecWave == InitWave /\ [][NextWave]_vars

----------------------------------------------------------------------------
(* Properties of drag, drop and click (checked under Spec) *)

\* what the program holds besides the pointer's whereabouts and the last event
progvars == <<items, locked, dock, renderer_width, hovered_item, cursor_in_window,
              cursor_x, cursor_y, dock_y_current, dock_y_target, dock_y_visible,
              dock_y_hidden, hide_timer, show_timer, icon_scales, dragging,
              drag_start_idx, drag_start_x, needs_reload, last_mouse_poll,
              fullscreen_active, last_fullscreen_check, panicked>>

\* the drag sub-states
Idle == ~dragging /\ drag_start_idx = None

PressedPendingDrag == ~dragging /\ drag_start_idx # None

\* a sequence with its p-th element (1-based) taken out
Without(s, p) == [k \in 1..(Len(s) - 1) |-> IF k < p THEN s[k] ELSE s[k + 1]]

\* C1: a primary release while Dragging whose drop index is the source index f
\* or f + 1 leaves the item list as it is, saves nothing and requests no reload.
C1_AdjacentDropIsNoOp ==
    [][(/\ LeftReleased
        /\ dragging
        /\ drag_start_idx # None
        /\ get_drop_index(cursor_x, items) \in {drag_start_idx, drag_start_idx + 1})
       => (/\ items' = items
           /\ needs_reload' = needs_reload
           /\ ~ev'.saved
           /\ ~panicked')]_vars

\* a drag has just been released on the slot to the right of its source
C1_Witness ==
    /\ ev.op = "LeftReleased"
    /\ ev.from # None
    /\ ev.to = ev.from + 1
    /\ ~ev.saved
    /\ ~needs_reload

\* C2: a primary release while Dragging with source index f and drop index t
\* outside {f, f + 1} gives the list with the item at f taken out and put back
\* right before the item that was at t (last when t = n), the other items in
\* their order, and is saved and followed by a reload request.
C2_DropReorders ==
    [][(/\ LeftReleased
        /\ dragging
        /\ drag_start_idx # None
        /\ get_drop_index(cursor_x, items) \notin {drag_start_idx, drag_start_idx + 1})
       => LET f == drag_start_idx
              t == get_drop_index(cursor_x, items)
              n == Len(items)
          IN  /\ ~panicked'
              /\ f < n
              /\ Len(items') = n
              /\ \E p \in 1..n :
                    /\ items'[p] = items[f + 1]
                    /\ Without(items', p) = Without(items, f + 1)
                    /\ t < n => (p < n /\ items'[p + 1] = items[t + 1])
                    /\ t = n => p = n
                    /\ t = 0 => p = 1
              /\ ev'.saved
              /\ needs_reload']_vars

\* a release of a drag whose source index is past the end of the list
C2_Witness ==
    /\ panicked
    /\ dragging
    /\ drag_start_idx # None
    /\ drag_start_idx >= Len(items)

\* C3: a launch comes only from a primary release that finds a pending press
\* and no drag, is for the hovered index, and is never for a separator.
C3_LaunchOnlyOnClick ==
    [][ev'.launch # None
       => (/\ LeftReleased
           /\ PressedPendingDrag
           /\ ev'.launch = hovered_item
           /\ ev'.launch < Len(items) => ~is_separator(items[ev'.launch + 1])
           /\ items' = items
           /\ ~ev'.saved)]_vars

\* a click has just launched an item that stands behind a separator
C3_Witness ==
    /\ ev.op = "LeftReleased"
    /\ ev.launch # None
    /\ ev.launch < Len(items)
    /\ \E k \in 1..ev.launch : is_separator(items[k])

\* C4: a pointer leave in any drag sub-state clears the hover and the drag
\* sub-state, leaves the item list alone and saves, reloads and launches
\* nothing; the sub-state stays Idle until the next press, and a primary
\* release in it changes nothing.
C4_LeaveAbandonsDrag ==
    /\ [][(\E dest \in {"edge", "away"} : CursorLeft(dest))
          => (/\ hovered_item' = None
              /\ Idle'
              /\ items' = items
              /\ needs_reload' = needs_reload
              /\ ~ev'.saved
              /\ ev'.launch = None)]_vars
    /\ [][(Idle /\ ~LeftPressed) => Idle']_vars
    /\ [][(Idle /\ LeftReleased)
          => (/\ UNCHANGED progvars
              /\ ~ev'.saved
              /\ ev'.launch = None)]_vars

\* the pointer has just left in the middle of a drag
C4_Witness ==
    /\ ev.op = "CursorLeft"
    /\ ev.from # None
    /\ Idle
    /\ hovered_item = None

----------------------------------------------------------------------------
(* Properties of the drag threshold (checked under SpecPointer) *)

\* a pointer move to any pixel of the row
PointerMove == \E x \in PixelXs, y \in CursorYs : CursorMoved(x, y)

\* C6: a pointer move promotes a pending press to a drag exactly when the
\* pointer is more than 5 pixels to the left or right of where it was pressed
\* and the dock is unlocked; a vertical move never promotes, and a drag is not
\* demoted by moving back.
C6_PromotionThreshold ==
    /\ [][(PressedPendingDrag /\ PointerMove)
          => (dragging' <=> (/\ Abs(cursor_x' - drag_start_x) > DRAG_THRESHOLD
                             /\ ~locked))]_vars
    /\ [][(PressedPendingDrag /\ cursor_x' = drag_start_x /\ PointerMove)
          => PressedPendingDrag']_vars
    /\ [][(dragging /\ PointerMove) => dragging']_vars

\* a move of exactly the threshold has left the press of an unlocked dock pending
C6_Witness ==
    /\ ev.op = "CursorMoved"
    /\ PressedPendingDrag
    /\ ~locked
    /\ Abs(cursor_x - drag_start_x) = DRAG_THRESHOLD

----------------------------------------------------------------------------
(* Properties of the locked dock (checked under Spec) *)

\* C7: while the dock is locked a primary press records no pending drag, a
\* pointer move promotes nothing, and a primary release leaves the item list
\* as it is and saves nothing.
C7_LockedNeverReorders ==
    /\ [][(locked /\ LeftPressed) => drag_start_idx' = drag_start_idx]_vars
    /\ [][(locked /\ ev'.op = "CursorMoved") => dragging' = dragging]_vars
    /\ [][(locked /\ LeftReleased) => (items' = items /\ ~ev'.saved)]_vars

\* a release has just moved an item of a locked dock
C7_Witness ==
    /\ locked
    /\ ev.op = "LeftReleased"
    /\ ev.from # None
    /\ ev.saved

----------------------------------------------------------------------------
(* Properties of the hide timer (checked under SpecHide) *)

\* a pointer move to the middle of a slot
SlotMove == \E x \in SlotXs, y \in CursorYs : CursorMoved(x, y)

C9_HidesAfterConfiguredDelay ==
    /\ [][(/\ Redraw(FALSE, LoadErr)
           /\ dock.auto_hide
           /\ hide_timer # None
           /\ show_timer = None)
          => IF hide_timer >= dock.auto_hide_delay_ms
             THEN dock_y_target' = dock_y_hidden' /\ hide_timer' = None
             ELSE dock_y_target' = dock_y_target /\ hide_timer' = hide_timer]_vars
    /\ [][(hide_timer # None /\ hide_timer' # None) => hide_timer' >= hide_timer]_vars

\* the hide timer is older than auto_hide_delay_ms, frames have been drawn
\* since, and the target is still the visible position
C9_Witness ==
    /\ ev.op = "Redraw"
    /\ dock.auto_hide
    /\ hide_timer # None
    /\ hide_timer >= dock.auto_hide_delay_ms
    /\ hide_timer < HIDE_DELAY
    /\ dock_y_target = dock_y_visible
    /\ 2 * Abs(dock_y_current - dock_y_visible) <= YUnit

\* C10: the hide timer is armed only when the pointer has left the dock and is
\* not at the trigger edge, and while the pointer rests at the trigger edge the
\* target never goes from the visible to the hidden position.
C10_NoHideAtEdge ==
    /\ [][(hide_timer = None /\ hide_timer' # None) => mouse' = "away"]_vars
    /\ [][(mouse = "edge" /\ mouse' = "edge" /\ dock_y_target = dock_y_visible)
          => dock_y_target' # dock_y_hidden']_vars

\* a tick has just set the target to the hidden position, the dock being in the
\* first frame of its slide down, while the pointer rests at the trigger edge of
\* a dock that shows after a delay
C10_Witness ==
    /\ mouse = "edge"
    /\ ev.op = "Redraw"
    /\ dock.auto_show_delay_ms > 0
    /\ dock_y_target = dock_y_hidden
    /\ show_timer = None
    /\ dock_y_current > dock_y_visible
    /\ 4 * (dock_y_current - dock_y_visible) < dock_y_hidden - dock_y_visible

----------------------------------------------------------------------------
(* Properties of the show timer (checked under SpecHide) *)

\* check_mouse_position gets past its early returns
PollRuns ==
    /\ dock.auto_hide
    /\ ~fullscreen_active
    /\ last_mouse_poll >= MOUSE_POLL_INTERVAL

\* about_to_wait with the pointer seen at the trigger edge, or away from it
WaitAtEdge == \E tray_click \in BOOLEAN : AboutToWait(tray_click, TRUE, FALSE)

WaitOffEdge == \E tray_click \in BOOLEAN : AboutToWait(tray_click, FALSE, FALSE)

\* C11: for a show delay d > 0 the show timer is armed only by a mouse poll
\* that sees the pointer at the trigger edge while the target is not visible;
\* a poll that sees the pointer away from the edge unarms it, and no tick
\* shows the dock without it; a tick shows the dock and clears both timers
\* exactly when d has passed. For d = 0 a poll at the edge shows the dock at
\* once and the show timer is never armed.
C11_ShowTimer ==
    /\ [][(show_timer = None /\ show_timer' # None)
          => (/\ dock.auto_show_delay_ms > 0
              /\ PollRuns
              /\ dock_y_target # dock_y_visible
              /\ WaitAtEdge)]_vars
    /\ [][(PollRuns /\ WaitOffEdge) => show_timer' = None]_vars
    /\ [][(show_timer = None /\ dock_y_target # dock_y_visible /\ Redraw(FALSE, LoadErr))
          => dock_y_target' # dock_y_visible']_vars
    /\ [][(show_timer # None /\ Redraw(FALSE, LoadErr))
          => IF show_timer >= dock.auto_show_delay_ms
             THEN /\ dock_y_target' = dock_y_visible'
                  /\ show_timer' = None
                  /\ hide_timer' = None
             ELSE /\ dock_y_target' # dock_y_visible'
                  /\ show_timer' = show_timer]_vars
    /\ [][(dock.auto_show_delay_ms = 0 /\ PollRuns /\ WaitAtEdge)
          => (/\ dock_y_target' = dock_y_visible'
              /\ hide_timer' = None)]_vars
    /\ [][dock.auto_show_delay_ms = 0 => show_timer' = None]_vars

\* the show timer of a hidden dock, armed at the trigger edge, has run out
C11_Witness ==
    /\ ev.op = "Advance"
    /\ mouse = "edge"
    /\ dock.auto_show_delay_ms > 0
    /\ show_timer # None
    /\ show_timer >= dock.auto_show_delay_ms
    /\ dock_y_target = dock_y_hidden

----------------------------------------------------------------------------
(* Properties of the fullscreen check (checked under SpecFullscreen) *)

\* C12: with hide_in_fullscreen on, a fullscreen check that finds a fullscreen
\* app where there was none sets the target to the hidden position and unarms
\* the hide timer in that step, whatever the timers, the drag sub-state and
\* the pointer are.
C12_FullscreenEntryHides ==
    [][(~fullscreen_active /\ fullscreen_active')
       => (/\ dock.hide_in_fullscreen
           /\ last_fullscreen_check >= FULLSCREEN_CHECK_INTERVAL
           /\ last_fullscreen_check' = 0
           /\ dock_y_target' = dock_y_hidden'
           /\ hide_timer' = None)]_vars

\* a fullscreen app has come up in the middle of a drag
C12_Witness ==
    /\ ev.op = "AboutToWait"
    /\ fullscreen_active
    /\ last_fullscreen_check = 0
    /\ dragging
    /\ mouse = "dock"
    /\ dock_y_target = dock_y_hidden
    /\ hide_timer = None

----------------------------------------------------------------------------
(* Properties of the magnification wave (checked under SpecMagnify) *)

\* the scale update_animations steers icon k (1-based) to
TargetOf(k) ==
    TargetScale(k - 1, cursor_in_window, cursor_x, dragging, dock.magnification)

\* an icon scale is further than 0.001 from its target
ScaleUnsettled ==
    \E k \in 1..Len(icon_scales) : 1000 * Abs(icon_scales[k] - TargetOf(k)) > ScaleUnit

\* C13: is_animating is true whenever the dock position is more than 0.5 from
\* its target, or an icon scale is more than 0.001 from its target, or the hide
\* timer is armed, or the pointer is inside the dock.
C13_IsAnimatingCovers ==
    (\/ 2 * Abs(dock_y_target - dock_y_current) > YUnit
     \/ ScaleUnsettled
     \/ hide_timer # None
     \/ cursor_in_window) => is_animating

\* a frame has left an icon scale short of its target, the next frame would
\* move it, and is_animating is false
C13_Witness ==
    /\ ev.op = "Redraw"
    /\ ~cursor_in_window
    /\ ScaleUnsettled
    /\ \E k \in 1..Len(icon_scales) : StepScale(icon_scales[k], TargetOf(k)) # icon_scales[k]
    /\ ~is_animating

----------------------------------------------------------------------------
(* Properties of the wave against the row layout (checked under SpecWave) *)

\* twice the horizontal centre of the item with 0-based index i in the
\* centred row the renderer lays out at rest
LayoutCenter2(its, width, i) == HitXPos2(its, width, i) + item_width(its[i + 1])

\* twice the distance from the pointer to the layout centre of item k (1-based)
LayoutDist2(k) == Abs(2 * cursor_x - LayoutCenter2(items, renderer_width, k - 1))

\* C14: with the pointer over the dock, no drag, and the pointer at the layout
\* centre of icon i, the target scale of icon i equals the magnification and is
\* the maximum over all icons, targets do not increase with the distance of the
\* icon's layout centre from the pointer (so they are symmetric), and an icon
\* whose layout centre is 3.5 icon sizes or more away has target 1.0; for
\* every list, separators and a centring offset included.
C14_WaveCentredOnLayout ==
    \A i \in 1..Len(items) :
        (cursor_in_window /\ ~dragging /\ LayoutDist2(i) = 0)
        => /\ TargetOf(i) = dock.magnification
           /\ \A k \in 1..Len(items) : TargetOf(k) <= TargetOf(i)
           /\ \A j, k \in 1..Len(items) :
                  LayoutDist2(j) <= LayoutDist2(k) => TargetOf(j) >= TargetOf(k)
           /\ \A k \in 1..Len(items) :
                  LayoutDist2(k) >= 7 * icon_size => TargetOf(k) = ScaleUnit

\* the pointer rests on the layout centre of an icon that follows a separator,
\* and the icon is steered to less than the magnification
C14_Witness ==
    /\ ev.op = "CursorMoved"
    /\ cursor_in_window
    /\ ~dragging
    /\ \E i \in 2..Len(items) :
           /\ is_separator(items[i - 1])
           /\ ~is_separator(items[i])
           /\ LayoutDist2(i) = 0
           /\ TargetOf(i) < dock.magnification

----------------------------------------------------------------------------
(* Properties of the return to rest (checked under SpecMagnify) *)

\* the pointer is not over the dock, or a drag is in progress
WaveOff == ~cursor_in_window \/ dragging

\* C15: while the pointer is not over the dock, or a drag is in progress, the
\* target scale of every icon is 1.0; every tick in that condition brings each
\* scale that is more than 0.001 from 1.0 strictly closer to 1.0 and sets every
\* other scale to exactly 1.0, where it stays on later ticks: so the scales
\* reach exactly 1.0 after finitely many ticks and stay there.
C15_ScalesReturnToRest ==
    [][WaveOff
       => /\ \A k \in 1..Len(icon_scales) : TargetOf(k) = ScaleUnit
          /\ ev'.op = "Redraw"
             => /\ Len(icon_scales') = Len(icon_scales)
                /\ \A k \in 1..Len(icon_scales) :
                       IF 1000 * Abs(icon_scales[k] - ScaleUnit) > ScaleUnit
                       THEN Abs(icon_scales'[k] - ScaleUnit)
                                < Abs(icon_scales[k] - ScaleUnit)
                       ELSE icon_scales'[k] = ScaleUnit]_vars

\* in the middle of a drag a tick has brought a magnified icon within 0.001 of
\* 1.0, so that the next tick sets it to exactly 1.0
C15_Witness ==
    /\ ev.op = "Redraw"
    /\ dragging
    /\ cursor_in_window
    /\ \E k \in 1..Len(icon_scales) :
           /\ icon_scales[k] > ScaleUnit
           /\ 1000 * (icon_scales[k] - ScaleUnit) <= ScaleUnit

----------------------------------------------------------------------------
(* Properties of the slide (checked under SpecHide) *)

\* the signed distance of the dock position from its target
Residual == dock_y_target - dock_y_current

\* C16: on a tick that leaves the position target as it was, while the residual
\* exceeds 0.5 the position moves toward the target by 15% of the residual
\* (to the resolution of the position), does not pass the target, and the
\* residual magnitude strictly decreases; once the residual is at most 0.5 the
\* position does not change.  The residual is bounded and each moving tick
\* lowers it, so the position settles after finitely many ticks.
C16_SlideConverges ==
    [][(ev'.op = "Redraw" /\ dock_y_target' = dock_y_target)
       => IF 2 * Abs(Residual) > YUnit
          THEN /\ Abs(100 * (dock_y_current' - dock_y_current) - 15 * Residual) < 100
               /\ Residual * Residual' >= 0
               /\ Abs(Residual') < Abs(Residual)
          ELSE dock_y_current' = dock_y_current]_vars

\* a tick has left the dock part of the way down to its hidden position
C16_Witness ==
    /\ ev.op = "Redraw"
    /\ dock_y_target = dock_y_hidden
    /\ dock_y_current > dock_y_visible
    /\ dock_y_current < dock_y_hidden
    /\ 2 * Abs(Residual) > YUnit

----------------------------------------------------------------------------
(* Properties of the rendered row (checked under SpecWave) *)

\* C17: in a frame rendered with no drag, the slot widths the layout walk
\* assigns plus (n-1) times the spacing add up to the total width the row is
\* centred with, so that the last slot ends at start_x + total_width; for
\* every item list and every vector of icon scales.
C17_SlotsFillTotalWidth ==
    (ev.op = "Redraw" /\ ~dragging /\ Len(items) > 0)
    => ScaleUnit * (SumSlots(items, icon_scales, Len(items))
                    + (Len(items) - 1) * spacing_x)
       = render_total_width(items, icon_scales, None)

\* a frame is rendered, with no drag, while an icon has a scale at which its
\* scaled size is not a whole number of pixels
C17_Witness ==
    /\ ev.op = "Redraw"
    /\ ~dragging
    /\ \E k \in 1..Len(items) :
           /\ ~is_separator(items[k])
           /\ (icon_size * icon_scales[k]) % ScaleUnit # 0
    /\ ScaleUnit * (SumSlots(items, icon_scales, Len(items))
                    + (Len(items) - 1) * spacing_x)
       < render_total_width(items, icon_scales, None)

----------------------------------------------------------------------------
(* Properties of hit testing and of the drop index (checked under SpecLayout) *)

\* the pixel under the midpoint of the slot the walk gives item k (1-based)
MidOf(k) == SlotMidPixel(items, icon_scales, renderer_width, k - 1)

SlotLeft(its, k) == RenderXPos2(its, Ones(Len(its)), renderer_width, k - 1)

\* 2 * ScaleUnit times half the width of that slot
SlotHalf(its, k) == ScaleUnit * walk_width(its, Ones(Len(its)), k - 1)

InLeftHalf(its, x, k) ==
    /\ 2 * ScaleUnit * x >= SlotLeft(its, k)
    /\ 2 * ScaleUnit * x < SlotLeft(its, k) + SlotHalf(its, k)

InRightHalf(its, x, k) ==
    /\ 2 * ScaleUnit * x >= SlotLeft(its, k) + SlotHalf(its, k)
    /\ 2 * ScaleUnit * x < SlotLeft(its, k) + 2 * SlotHalf(its, k)

\* C19: the drop index computed when a drag is released is k when the pointer
\* is in the left half of the layout slot of item k and k+1 when it is in the
\* right half, the slots being those of the layout walk: row centred in the
\* surface, separators icon_size/3 wide (k counted from 0).
C19_DropIndexFollowsLayout ==
    [][(dragging /\ drag_start_idx # None /\ ev'.op = "LeftReleased")
       => \A k \in 1..Len(items) :
              /\ InLeftHalf(items, cursor_x, k) => ev'.to = k - 1
              /\ InRightHalf(items, cursor_x, k) => ev'.to = k]_vars

\* a drag has been released in the left half of the slot of item k, the list
\* is as it was, and the drop index was k+1
C19_Witness ==
    /\ ev.op = "LeftReleased"
    /\ ev.to # None
    /\ ~ev.saved
    /\ \E k \in 1..Len(items) :
           /\ InLeftHalf(items, cursor_x, k)
           /\ ev.to = k

----------------------------------------------------------------------------
(* The drop indicator against the release (checked under SpecLayout) *)

\* redraw: the drop indicators of the frame drawn in this state, with
\* drag_state = (drag_start_idx, get_drop_index(), cursor_x)
FrameIndicators ==
    DropIndicators(Len(items), drag_start_idx, get_drop_index(cursor_x, items))

\* window_event (left release): the number of items that are left of the
\* dragged item after a release in this state
PlaceOnRelease ==
    IF DropMoves(drag_start_idx, get_drop_index(cursor_x, items))
    THEN InsertIdx(drag_start_idx, get_drop_index(cursor_x, items))
    ELSE drag_start_idx

\* C20: in a frame drawn during a drag, at most one drop indicator is drawn,
\* and an indicator that is drawn stands where the dragged item would be
\* inserted by a release at that instant: as many items are drawn left of the
\* indicator as are left of the moved item after the release, so the item right
\* of the indicator is the one that follows the moved item, and the indicator
\* is at the end of the row exactly when the item would become last.
C20_IndicatorMarksInsertion ==
    (ev.op = "Redraw" /\ dragging /\ drag_start_idx # None
        /\ drag_start_idx < Len(items))
    => /\ Cardinality(FrameIndicators) <= 1
       /\ \A g \in FrameIndicators : g = PlaceOnRelease

\* a frame drawn while the first of three items is dragged over the second
\* half of the middle item: the indicator is at the end of the row, a release
\* would put the item in the middle
C20_Witness ==
    /\ ev.op = "Redraw"
    /\ dragging
    /\ Len(items) = 3
    /\ drag_start_idx = 0
    /\ get_drop_index(cursor_x, items) = 2
    /\ FrameIndicators = {2}
    /\ PlaceOnRelease = 1

----------------------------------------------------------------------------
(* Reload in the middle of an animation (checked under SpecMagnify) *)

\* C21: a tick that reloads the configuration while the dock position or an
\* icon scale is in the middle of an animation recomputes the visible and the
\* hidden position, and the position and the scales of the frame are one
\* smoothing step from the values they had before the reload: they are not
\* set to their targets or to rest by the reload.
C21_ReloadKeepsCurrent ==
    [][(needs_reload /\ ev'.op = "Redraw")
       => /\ dock_y_visible' = YVisible
          /\ dock_y_hidden' = YHiddenAfterReload
          /\ dock_y_current' = StepY(dock_y_current, dock_y_target')
          /\ \A k \in 1..Min(Len(icon_scales), Len(icon_scales')) :
                 icon_scales'[k] = StepScale(icon_scales[k], TargetOf(k))]_vars

\* a drop has just reordered the list, so the next tick reloads, while the
\* pointer is over the dock and an icon scale is away from rest and from its
\* target
C21_Witness ==
    /\ ev.op = "LeftReleased"
    /\ ev.saved
    /\ needs_reload
    /\ cursor_in_window
    /\ \E k \in 1..Len(icon_scales) :
           /\ icon_scales[k] > ScaleUnit
           /\ icon_scales[k] # TargetOf(k)

----------------------------------------------------------------------------
(* The empty dock (checked under Spec) *)

\* C22: with an empty item list the row is 0 wide and the surface is
\* padding.left + padding.right wide, and the tick that reloads the
\* configuration after the last item was removed resizes the surface and draws
\* the frame without a failure, whatever the padding is.
C22_EmptyDockRenders ==
    [][(Len(items) = 0 /\ needs_reload /\ ev'.op \in {"Redraw", "panic"})
       => /\ total_width(items) = 0
          /\ RendererWidth(0) = padding.left + padding.right
          /\ ~panicked'
          /\ (renderer_width' # renderer_width
                 => renderer_width' = padding.left + padding.right)]_vars

\* the last item has been removed with the context menu and the reload of the
\* empty list has failed in the resize of the surface
C22_Witness ==
    /\ Len(items) = 0
    /\ needs_reload
    /\ panicked
    /\ ev.op = "panic"
    /\ RendererWidth(0) = 0

----------------------------------------------------------------------------
(* The dock under a fullscreen app (checked under SpecFullscreen) *)

\* C24: with hide_in_fullscreen enabled, in every reachable state in which a
\* fullscreen app is active the position target of the dock is the hidden
\* position.
C24_HiddenWhileFullscreen ==
    (dock.hide_in_fullscreen /\ fullscreen_active) => dock_y_target = dock_y_hidden

\* the pointer has moved over the strip of the hidden dock while a fullscreen
\* app is active, and the dock is on its way up
C24_Witness ==
    /\ dock.hide_in_fullscreen
    /\ fullscreen_active
    /\ ev.op = "CursorMoved"
    /\ dock_y_target = dock_y_visible
    /\ dock_y_target # dock_y_hidden

----------------------------------------------------------------------------
(* SpecMenu: the context menu with every entry and every answer of the item *)
(* editor, opened over an item, over a separator or beside the icon row, on *)
(* a locked or an unlocked dock; frames are drawn and reload what was saved. *)

InitMenu == InitWith({Settings(FALSE, 0, 300, FALSE, ScaleUnit)},
                     {<<AppA, new_separator>>}, TRUE)

NextMenu ==
    \/ \E x \in SlotXs, y \in CursorYs : CursorMoved(x, y)
    \/ CursorLeft("away")
    \/ \E c \in MenuChoices : RightPressed(c)
    \/ Redraw(FALSE, Loaded(items, locked))

SpecMenu == InitMenu /\ [][NextMenu]_vars

\* the entries of the context menu that modify the item list
ModifyingActions == {"EditItem", "RemoveItem", "AddItem", "AddSeparator", "AddSpecial"}

\* the item list after the one edit that choice c asks for at hit index i
OneEdit(its, c, i) ==
    CASE c.act = "AddSeparator"            -> Append(its, new_separator)
      [] c.act \in {"AddItem", "AddSpecial"} -> Append(its, c.item)
      [] c.act = "RemoveItem"              -> Without(its, i + 1)
      [] c.act = "EditItem" /\ c.dlg = "Remove" -> Without(its, i + 1)
      [] c.act = "EditItem" /\ c.dlg = "Ok"     -> [its EXCEPT ![i + 1] = c.item]
      [] OTHER                             -> its

\* C25: a context-menu action that modifies the item list is returned only
\* when the dock is unlocked, EditItem and RemoveItem only when the hit test of
\* the right click found an item, and then they carry that hit index; a
\* modification that is applied changes the list by exactly that one edit, at
\* an index in range, and is followed by a save and a reload request.
C25_MenuEditsOneItem ==
    [][\A c \in MenuChoices :
          (c.act \in ModifyingActions /\ RightPressed(c))
          => LET clicked == hit_test(cursor_x, cursor_y, items, renderer_width)
             IN  /\ ~locked
                 /\ c.act \in {"EditItem", "RemoveItem"}
                    => /\ clicked # None
                       /\ clicked < Len(items)
                       /\ ActionIndex(clicked) = clicked
                 /\ ev'.saved => /\ items' = OneEdit(items, c, clicked)
                                 /\ needs_reload'
                 /\ items' # items => ev'.saved]_vars

\* the separator has been removed with the context menu opened over it: the
\* list is saved and a reload is requested
C25_Witness ==
    /\ ev.op = "RightPressed"
    /\ ev.saved
    /\ needs_reload
    /\ ~locked
    /\ items = <<AppA>>
    /\ hit_test(cursor_x, cursor_y, <<AppA, new_separator>>,
                RendererWidth(2)) = 1

----------------------------------------------------------------------------
(* The source index of a press across reloads (checked under Spec) *)

\* C26: whenever a press is pending or a drag is active, the recorded source
\* index is an index of the current item list, and for a release in that state
\* the insertion index is within the list that is left when the source item
\* is taken out; whatever presses, moves, reloads and releases came before.
C26_SourceIndexValid ==
    drag_start_idx # None
    => /\ drag_start_idx >= 0
       /\ drag_start_idx < Len(items)
       /\ dragging
          => InsertIdx(drag_start_idx, get_drop_index(cursor_x, items)) <= Len(items) - 1

\* a frame has reloaded a list that is shorter than the one the pending press
\* was made on, and the source index is past its end
C26_Witness ==
    /\ ev.op = "Redraw"
    /\ ~panicked
    /\ drag_start_idx # None
    /\ drag_start_idx >= Len(items)
    /\ Len(items) > 0

----------------------------------------------------------------------------
(* Clicks on a locked dock (checked under Spec) *)

\* C27: a primary press on a locked dock records nothing: the pending press and
\* the drag flag are as they were.  While the dock stays locked no step ends
\* the state in which no press is pending, and a primary release in that state
\* emits no launch, reorders nothing and saves nothing: a click on an item of
\* a locked dock launches nothing.
C27_LockedClickLaunchesNothing ==
    [][locked
       => /\ ev'.op = "LeftPressed"
             => (drag_start_idx' = drag_start_idx /\ dragging' = dragging)
          /\ (Idle /\ locked') => Idle'
          /\ (Idle /\ ev'.op = "LeftReleased")
             => (ev'.launch = None /\ ~ev'.saved /\ items' = items)]_vars

\* the primary button has been released over an application icon of a locked
\* dock, and nothing was launched
C27_Witness ==
    /\ ev.op = "LeftReleased"
    /\ locked
    /\ cursor_in_window
    /\ hovered_item # None
    /\ hovered_item < Len(items)
    /\ ~is_separator(items[hovered_item + 1])
    /\ hit_test(cursor_x, cursor_y, items, renderer_width) = hovered_item
    /\ ev.launch = None
    /\ ev.from = None

----------------------------------------------------------------------------
(* SpecNoHide: a dock with auto_hide and hide_in_fullscreen off, under pointer *)
(* events, the polls of the event loop with and without a fullscreen app and  *)
(* a click on the tray icon, the clock, and frames that reload the config     *)
(* file with the same settings.                                               *)

InitNoHide == InitWith({Settings(FALSE, d, 300, FALSE, ScaleUnit) : d \in {0, 200}},
                       {<<AppA, AppB>>}, FALSE)

NextNoHide ==
    \/ \E x \in SlotXs, y \in CursorYs : CursorMoved(x, y)
    \/ \E dest \in {"edge", "away"} : CursorLeft(dest)
    \/ LeftPressed
    \/ LeftReleased
    \/ \E tray_click, edge, fs \in BOOLEAN : AboutToWait(tray_click, edge, fs)
    \/ \E modified \in BOOLEAN : Redraw(modified, Loaded(items, locked))
    \/ \E dt \in TimeSteps : Advance(dt)
    \/ \E dest \in {"edge", "away"} : MouseOutside(dest)

SpecNoHide == InitNoHide /\ [][NextNoHide]_vars

\* C28: with auto_hide and hide_in_fullscreen disabled, in every reachable
\* state the hide timer is not armed and the position target of the dock is
\* the visible position.
C28_NeverHides ==
    (~dock.auto_hide /\ ~dock.hide_in_fullscreen)
    => (hide_timer = None /\ dock_y_target = dock_y_visible)

\* the pointer has left a dock that is at its visible position, the one
\* place where a dock that hides arms its timer, and no timer is armed
C28_Witness ==
    /\ ~dock.auto_hide
    /\ ~dock.hide_in_fullscreen
    /\ ev.op = "CursorLeft"
    /\ NearVisible(dock_y_current, dock_y_visible)
    /\ hide_timer = None
    /\ dock_y_target = dock_y_visible

----------------------------------------------------------------------------
(* The range of the icon scales (checked under SpecMagnify) *)

\* C29: for a configured magnification of at least 1.0, in every reachable
\* state every icon scale and every target scale lies between 1.0 and the
\* magnification.
C29_ScalesInRange ==
    dock.magnification >= ScaleUnit
    => \A k \in 1..Len(icon_scales) :
           /\ icon_scales[k] >= ScaleUnit
           /\ icon_scales[k] <= dock.magnification
           /\ TargetOf(k) >= ScaleUnit
           /\ TargetOf(k) <= dock.magnification

\* a frame has one icon at the full magnification and its neighbour strictly
\* between rest and the magnification
C29_Witness ==
    /\ ev.op = "Redraw"
    /\ dock.magnification > ScaleUnit
    /\ \E j, k \in 1..Len(icon_scales) :
           /\ icon_scales[j] = dock.magnification
           /\ icon_scales[k] > ScaleUnit
           /\ icon_scales[k] < dock.magnification

----------------------------------------------------------------------------
(* SpecBlend: one call of alpha_blend on a pair of ARGB pixels; the pixels    *)
(* have every combination of a transparent, a nearly transparent, a half      *)
(* transparent and an opaque alpha with dark, middle and full colour channels. *)

Pixels ==
    {Pack(a, r, g, b) : a \in {0, 1, 128, 255}, r \in {0, 128, 255},
                        g \in {0, 255}, b \in {255}}

InitBlend ==
    InitAll({Settings(FALSE, 0, 300, FALSE, ScaleUnit)}, {<<AppA>>}, TRUE, {IconPaths},
            {[dst |-> d, src |-> c, out |-> Zero, done |-> FALSE] : d \in Pixels, c \in Pixels})

\* a compositing step: buffer[idx] = alpha_blend(buffer[idx], pixel)
Blend ==
    /\ ~blend.done
    /\ blend' = [blend EXCEPT !.out = alpha_blend(blend.dst, blend.src), !.done = TRUE]
    /\ ev' = Event("alpha_blend")
    /\ UNCHANGED <<items, locked, dock, renderer_width, hovered_item,
                   cursor_in_window, cursor_x, cursor_y, dock_y_current,
                   dock_y_target, dock_y_visible, dock_y_hidden, hide_timer,
                   show_timer, icon_scales, dragging, drag_start_idx, drag_start_x,
                   needs_reload, last_mouse_poll, fullscreen_active,
                   last_fullscreen_check, panicked, mouse, readable, icons>>

NextBlend == Blend

SpecBlend == InitBlend /\ [][NextBlend]_vars

\* alpha_blend has blended: the source is neither transparent nor opaque
Blended == blend.done /\ Channel(blend.src, 24) \notin {0, 255}

\* C30: alpha_blend(dst, src) is dst when the source alpha is 0 and src when it
\* is 255, and otherwise each of the four output channels is within 0..255, so
\* that the packed result holds each channel in its own byte.
C30_BlendChannelsInRange ==
    blend.done
    => /\ Channel(blend.src, 24) = 0 => blend.out = blend.dst
       /\ Channel(blend.src, 24) = 255 => blend.out = blend.src
       /\ Blended
          => LET c == blend_channels(blend.dst, blend.src)
             IN  /\ c.a \in 0..255 /\ c.r \in 0..255
                 /\ c.g \in 0..255 /\ c.b \in 0..255
                 /\ Channel(blend.out, 24) = c.a
                 /\ Channel(blend.out, 16) = c.r
                 /\ Channel(blend.out, 8) = c.g
                 /\ Channel(blend.out, 0) = c.b

\* two nearly transparent pixels of full blue and no green have been blended:
\* the blue channel is above 255 and the green byte of the result is not out_g
C30_Witness ==
    /\ Blended
    /\ Channel(blend.src, 24) = 1
    /\ Channel(blend.dst, 24) = 1
    /\ Channel(blend.src, 8) = 0
    /\ Channel(blend.dst, 8) = 0
    /\ blend_channels(blend.dst, blend.src).b > 255
    /\ Channel(blend.out, 8) # blend_channels(blend.dst, blend.src).g

----------------------------------------------------------------------------
(* SpecIcons: a dock some of whose icon files cannot be opened or decoded;   *)
(* items are added with the context menu, and frames reload the list that    *)
(* was saved or the file as it is.                                           *)

InitIcons ==
    InitAll({Settings(FALSE, 0, 300, FALSE, ScaleUnit)}, {<<AppA>>}, TRUE,
            SUBSET IconPaths, {NoBlend})

NextIcons ==
    \/ \E x \in SlotXs, y \in CursorYs : CursorMoved(x, y)
    \/ CursorLeft("away")
    \/ \E item \in ItemPool : RightPressed(Choice("AddItem", "Ok", item, LoadErr))
    \/ \E modified \in BOOLEAN : Redraw(modified, Loaded(items, locked))

SpecIcons == InitIcons /\ [][NextIcons]_vars

\* the item with 0-based index i has an icon whose file cannot be loaded
IconBroken(i) ==
    icon(items[i + 1]) # {} /\ ~(icon(items[i + 1]) \subseteq readable)

====
